---- MODULE Spec2Model ----
(***************************************************************************)
(* Transport and client core of the Jira API client.                       *)
(*                                                                         *)
(*   Client.Do             : send, read body, reset body, parse, classify  *)
(*   CookieAuthTransport   : lazy login exchange, cookie cache, RoundTrip  *)
(*   canonicalizeRequest   : the canonical string behind the qsh claim     *)
(*   cloneRequest          : requests and their header maps on a heap;     *)
(*                           Basic, Cookie and JWT RoundTrip on top of it  *)
(*   Client.NewRawRequest  : client-level authentication, request options  *)
(*   InsightsService       : the two object-schema endpoints               *)
(*                                                                         *)
(* Every caller is a goroutine that calls Do (or RoundTrip) on one shared  *)
(* Client (or one shared CookieAuthTransport).  A step of the model is one *)
(* statement group of the Go source between two accesses to shared state   *)
(* or to the outside world (HTTP client, parser pool, cookie cache).       *)
(***************************************************************************)
EXTENDS Integers, Sequences, FiniteSets, TLC

\* ------------------------------------------------------------------ bounds
NumCallers == 2      \* goroutines calling into one Client / one transport
MaxBodyLen == 2      \* longest response body, in bytes
MaxCookies == 2      \* most Set-Cookie lines in a login response
MaxLogins  == 3      \* login exchanges counted per cache lifetime

Callers == 1 .. NumCallers

\* ---------------------------------------------------------------- helpers
RECURSIVE SeqsUpTo(_, _)
SeqsUpTo(S, n) ==
    IF n = 0 THEN { <<>> }
    ELSE LET shorter == SeqsUpTo(S, n - 1)
         IN  shorter \cup { Append(s, x) : s \in { q \in shorter : Len(q) = n - 1 }, x \in S }

Drop(s, k) == SubSeq(s, k + 1, Len(s))

(***************************************************************************)
(*                          PART 1: Client.Do                              *)
(***************************************************************************)

\* Bytes a response body is made of, and the bodies the server may send.
Bytes  == { "[", "]", "1" }
Bodies == SeqsUpTo(Bytes, MaxBodyLen)

\* Status codes on both sides of both ends of the success range.
StatusCodes == { 199, 200, 299, 300 }

\* A response body stream (io.Reader): the bytes and the read position.
Stream(data) == [data |-> data, pos |-> 0]
Remaining(s) == Drop(s.data, s.pos)

\* *http.Response, or nil (present = FALSE).
NilResponse  == [present |-> FALSE, StatusCode |-> 0, Body |-> Stream(<<>>)]
Response(c, data) == [present |-> TRUE, StatusCode |-> c, Body |-> Stream(data)]

\* ---- fastjson values and the parser --------------------------------------
\* A parsed value: a number (its raw digits) or an array (its items).
NullValue   == [typ |-> "null",   num |-> <<>>, arr |-> <<>>]
NumberValue(raw)  == [typ |-> "number", num |-> raw,  arr |-> <<>>]
ArrayValue(items) == [typ |-> "array",  num |-> <<>>, arr |-> items]

ParseResult(ok, v, tail) == [ok |-> ok, val |-> v, tail |-> tail]
ParseFail == ParseResult(FALSE, NullValue, <<>>)

\* parseRawNumber: the longest prefix of number bytes.
RECURSIVE NumberPrefixLen(_)
NumberPrefixLen(s) ==
    IF s # <<>> /\ Head(s) = "1" THEN 1 + NumberPrefixLen(Tail(s)) ELSE 0

\* parseValue / parseArray: recursive descent over the body.
RECURSIVE parseValue(_)
parseValue(s) ==
    IF s = <<>> THEN ParseFail
    ELSE IF Head(s) = "[" THEN
        LET rest == Tail(s) IN
        IF rest = <<>> THEN ParseFail                       \* missing ']'
        ELSE IF Head(rest) = "]" THEN ParseResult(TRUE, ArrayValue(<<>>), Tail(rest))
        ELSE LET item == parseValue(rest) IN
             IF ~item.ok THEN ParseFail
             ELSE IF item.tail = <<>> THEN ParseFail        \* unexpected end of array
             ELSE IF Head(item.tail) = "]"
                  THEN ParseResult(TRUE, ArrayValue(<<item.val>>), Tail(item.tail))
                  ELSE ParseFail                            \* missing ','
    ELSE IF Head(s) = "1" THEN
        LET n == NumberPrefixLen(s) IN
        ParseResult(TRUE, NumberValue(SubSeq(s, 1, n)), Drop(s, n))
    ELSE ParseFail

\* Parser.ParseBytes: one value, and nothing after it.
ParseBytes(b) ==
    LET r == parseValue(b) IN
    IF r.ok /\ r.tail = <<>> THEN r ELSE ParseFail

\* ---- errors ---------------------------------------------------------------
\* The error Do returns: its kind, and for the status error what it carries.
Error(kind) == [kind |-> kind, status |-> 0, body |-> <<>>]
NoError     == Error("nil")
\* NewJiraRequestError(httpResp): carries the status and the body.
NewJiraRequestError(resp) ==
    [kind |-> "status", status |-> resp.StatusCode, body |-> Remaining(resp.Body)]

\* ---- the success range ----------------------------------------------------
IsSuccessStatus_Open(c) == 200 <= c
IsSuccessStatus(c) == 200 <= c /\ c <= 299

\* ---- state ----------------------------------------------------------------
Parsers == 1 .. NumCallers       \* parser objects that can exist at once
NoParser == 0                    \* nil *fastjson.Parser / nil *fastjson.Value

VARIABLES
    doPc,        \* per caller: where its Do call stands
    fault,       \* per caller: what failed outside Do ("none", "send", "read")
    wire,        \* per caller: the body bytes the HTTP client delivered
    httpResp,    \* per caller: Do's httpResp
    body,        \* per caller: Do's body
    parser,      \* per caller: Do's parser (an object of the pool)
    doRet,       \* per caller: what Do returned (value, response, error)
    clientCalls, \* per caller: how often its Do call has called c.client.Do
    parserPool,  \* c.parserPool: the parsers that Put handed back
    parserMem    \* per parser object: the value its memory holds

doVars == <<doPc, fault, wire, httpResp, body, parser, doRet, clientCalls, parserPool, parserMem>>

\* A returned *fastjson.Value points into the memory of the parser that made it.
Return(v, resp, err) == [value |-> v, resp |-> resp, err |-> err]
NoReturn == Return(NoParser, NilResponse, NoError)
Deref(v) == parserMem[v]

NeverUsed == [typ |-> "unused", num |-> <<>>, arr |-> <<>>]

InitDo ==
    /\ doPc = [t \in Callers |-> "idle"]
    /\ fault = [t \in Callers |-> "none"]
    /\ wire = [t \in Callers |-> <<>>]
    /\ httpResp = [t \in Callers |-> NilResponse]
    /\ body = [t \in Callers |-> <<>>]
    /\ parser = [t \in Callers |-> NoParser]
    /\ doRet = [t \in Callers |-> NoReturn]
    /\ clientCalls = [t \in Callers |-> 0]
    /\ parserPool = {}
    /\ parserMem = [p \in Parsers |-> NeverUsed]

\* ---- Do, lines 203-213: c.client.Do(req) and the two early returns ---------
\* Line 206 stands in no loop: c.client.Do is called once, whatever it returns.
ClientAttempts_Retry(failed) == IF failed THEN 2 ELSE 1
ClientAttempts(failed) == 1

ClientDo(t) ==
    /\ doPc[t] = "idle"
    /\ \E failed \in BOOLEAN, present \in BOOLEAN, c \in StatusCodes, data \in Bodies :
         LET resp == IF present THEN Response(c, data) ELSE NilResponse IN
         /\ present \/ (c = 200 /\ data = <<>>)
         /\ failed => data = <<>>
         /\ httpResp' = [httpResp EXCEPT ![t] = resp]
         /\ wire' = [wire EXCEPT ![t] = data]
         /\ fault' = [fault EXCEPT ![t] = IF failed THEN "send" ELSE "none"]
         /\ clientCalls' = [clientCalls EXCEPT ![t] = @ + ClientAttempts(failed)]
         /\ IF failed
            THEN /\ doRet' = [doRet EXCEPT ![t] = Return(NoParser, resp, Error("http"))]
                 /\ doPc' = [doPc EXCEPT ![t] = "done"]
            ELSE IF ~present
            THEN /\ doRet' = [doRet EXCEPT ![t] = Return(NoParser, resp, Error("noresp"))]
                 /\ doPc' = [doPc EXCEPT ![t] = "done"]
            ELSE /\ doRet' = [doRet EXCEPT ![t] = NoReturn]
                 /\ doPc' = [doPc EXCEPT ![t] = "read"]
    /\ body' = [body EXCEPT ![t] = <<>>]
    /\ parser' = [parser EXCEPT ![t] = NoParser]
    /\ UNCHANGED <<parserPool, parserMem>>

\* ---- Do, lines 215-220: ioutil.ReadAll and the reset of httpResp.Body ------
\* Line 220: httpResp.Body = ioutil.NopCloser(bytes.NewBuffer(body)).
ResetBody_Skipped(resp, data) == resp
ResetBody(resp, data) == [resp EXCEPT !.Body = Stream(data)]

\* ReadAll drains the stream; a failing read stops after any number of bytes.
ReadBody(t) ==
    /\ doPc[t] = "read"
    /\ \E failed \in BOOLEAN, k \in 0 .. Len(httpResp[t].Body.data) :
         LET drained == [httpResp[t] EXCEPT !.Body.pos = k]
             data    == Remaining(httpResp[t].Body)
         IN  /\ fault' = [fault EXCEPT ![t] = IF failed THEN "read" ELSE "none"]
             /\ IF failed
                THEN /\ httpResp' = [httpResp EXCEPT ![t] = drained]
                     /\ doRet' = [doRet EXCEPT ![t] = Return(NoParser, drained, Error("read"))]
                     /\ doPc' = [doPc EXCEPT ![t] = "done"]
                     /\ UNCHANGED body
                ELSE /\ k = Len(httpResp[t].Body.data)
                     /\ body' = [body EXCEPT ![t] = data]
                     /\ httpResp' = [httpResp EXCEPT ![t] = ResetBody(drained, data)]
                     /\ doPc' = [doPc EXCEPT ![t] = "pool"]
                     /\ UNCHANGED doRet
    /\ UNCHANGED <<wire, parser, clientCalls, parserPool, parserMem>>

\* ---- Do, line 222: c.parserPool.Get() ---------------------------------------
\* Get hands out a pooled parser, or a new one (the pool may also be drained).
InUse == { parser[u] : u \in Callers } \ { NoParser }
Fresh == { p \in Parsers : parserMem[p] = NeverUsed /\ p \notin parserPool /\ p \notin InUse }
NewParser == IF Fresh = {} THEN {} ELSE { CHOOSE p \in Fresh : \A q \in Fresh : p <= q }

PoolGet(t) ==
    /\ doPc[t] = "pool"
    /\ \E p \in parserPool \cup NewParser :
         /\ parser' = [parser EXCEPT ![t] = p]
         /\ parserPool' = parserPool \ {p}
    /\ doPc' = [doPc EXCEPT ![t] = "parse"]
    /\ UNCHANGED <<fault, wire, httpResp, body, doRet, clientCalls, parserMem>>

\* ---- Do, line 223: defer c.parserPool.Put(parser) --------------------------
PoolPut_Leak(pool, p) == pool
PoolPut(pool, p) == pool \cup {p}

\* ---- Do, lines 223-228: parser.ParseBytes(body), return on a parse error ----
\* The deferred Put runs on this return as on every later one.
ParseBody(t) ==
    /\ doPc[t] = "parse"
    /\ LET r == ParseBytes(body[t]) IN
       /\ parserMem' = [parserMem EXCEPT ![parser[t]] = r.val]
       /\ IF ~r.ok
          THEN /\ doRet' = [doRet EXCEPT ![t] = Return(NoParser, httpResp[t], Error("parse"))]
               /\ parserPool' = PoolPut(parserPool, parser[t])
               /\ parser' = [parser EXCEPT ![t] = NoParser]
               /\ doPc' = [doPc EXCEPT ![t] = "done"]
          ELSE /\ doPc' = [doPc EXCEPT ![t] = "status"]
               /\ UNCHANGED <<doRet, parserPool, parser>>
    /\ UNCHANGED <<fault, wire, httpResp, body, clientCalls>>

\* ---- Do, lines 230-234: the status check, the return, the deferred Put ------
CheckStatus(t) ==
    /\ doPc[t] = "status"
    /\ doRet' = [doRet EXCEPT ![t] =
           IF ~IsSuccessStatus(httpResp[t].StatusCode)
           THEN Return(parser[t], httpResp[t], NewJiraRequestError(httpResp[t]))
           ELSE Return(parser[t], httpResp[t], NoError)]
    /\ parserPool' = PoolPut(parserPool, parser[t])
    /\ parser' = [parser EXCEPT ![t] = NoParser]
    /\ doPc' = [doPc EXCEPT ![t] = "done"]
    /\ UNCHANGED <<fault, wire, httpResp, body, clientCalls, parserMem>>

\* ---- the caller is through with what Do returned ----------------------------
DoDone(t) ==
    /\ doPc[t] = "done"
    /\ doPc' = [doPc EXCEPT ![t] = "idle"]
    /\ fault' = [fault EXCEPT ![t] = "none"]
    /\ wire' = [wire EXCEPT ![t] = <<>>]
    /\ httpResp' = [httpResp EXCEPT ![t] = NilResponse]
    /\ body' = [body EXCEPT ![t] = <<>>]
    /\ doRet' = [doRet EXCEPT ![t] = NoReturn]
    /\ clientCalls' = [clientCalls EXCEPT ![t] = 0]
    /\ UNCHANGED <<parser, parserPool, parserMem>>

\* ------------------------------------------------------- claims on Client.Do
Returned(t) == doPc[t] = "done"
OutsideSuccessRange(c) == c < 200 \/ c > 299
\* The body was read: the HTTP client answered and ReadAll did not fail.
BodyWasRead(t) == fault[t] = "none" /\ httpResp[t].present

\* C2: the value Do hands back is never backed by a parser that is back in the
\* pool (where the next Get of any Do call can take it and parse over it).
C2_ValueOutlivesNoParser ==
    \A t \in Callers :
        (Returned(t) /\ doRet[t].value # NoParser) => doRet[t].value \notin parserPool

\* C3: a response outside [200,299] whose body was read makes Do return the
\* status error carrying status and body, whether or not the body is JSON.
C3_StatusErrorWins ==
    \A t \in Callers :
        (Returned(t) /\ BodyWasRead(t) /\ OutsideSuccessRange(httpResp[t].StatusCode))
            => /\ doRet[t].err.kind = "status"
               /\ doRet[t].err.status = httpResp[t].StatusCode
               /\ doRet[t].err.body = wire[t]

\* Something below the status check failed in t's call.
LowerLevelFailure(t) ==
    \/ fault[t] # "none"
    \/ ~httpResp[t].present
    \/ ~ParseBytes(wire[t]).ok

\* C4: Do's error is non-nil exactly when the status is outside [200,299] or
\* something below failed (transport error, nil response, body read failure,
\* parse failure); a 2xx response with a JSON body gives a nil error and the
\* parsed value of that body.

C4_ErrorExactlyOnFailure ==
    \A t \in Callers :
        Returned(t) =>
            /\ (doRet[t].err.kind # "nil")
                   <=> (LowerLevelFailure(t) \/ OutsideSuccessRange(httpResp[t].StatusCode))
            /\ (~LowerLevelFailure(t) /\ ~OutsideSuccessRange(httpResp[t].StatusCode))
                   => /\ doRet[t].value # NoParser
                      /\ Deref(doRet[t].value) = ParseBytes(wire[t]).val

C4_Witness ==
    \E t \in Callers :
        /\ Returned(t)
        /\ doRet[t].err.kind = "nil"
        /\ httpResp[t].StatusCode = 299
        /\ doRet[t].value # NoParser
        /\ Deref(doRet[t].value) = ArrayValue(<<>>)

\* C5: once Do has read the body, the response it returns yields the complete
\* original body again from the start, on every return path after the read.
C5_BodyReadableAgain ==
    \A t \in Callers :
        (Returned(t) /\ BodyWasRead(t))
            => /\ doRet[t].resp.present
               /\ doRet[t].resp.Body.pos = 0
               /\ Remaining(doRet[t].resp.Body) = wire[t]

C5_Witness ==
    \E t \in Callers :
        /\ Returned(t)
        /\ BodyWasRead(t)
        /\ doRet[t].err.kind = "status"
        /\ wire[t] # <<>>
        /\ Remaining(doRet[t].resp.Body) = wire[t]

(***************************************************************************)
(*                     PART 2: CookieAuthTransport                         *)
(***************************************************************************)

\* ---- cookies and requests -------------------------------------------------
Cookie(n, v) == [Name |-> n, Value |-> v]
\* What a login response may set: two session ids and an empty-value cookie.
LoginCookies == { Cookie("JSESSIONID", "s1"), Cookie("JSESSIONID", "s2"), Cookie("atl", "") }
\* resp.Cookies(): one cookie per Set-Cookie line, never nil.
CookieLists == SeqsUpTo(LoginCookies, MaxCookies)

\* An outbound request: its Cookie header, as the list of pairs it holds.
Request(cookies) == [Cookie |-> cookies]
\* The requests a caller hands to RoundTrip: with and without a cookie of its own.
CallerRequests == { Request(<<>>), Request(<<Cookie("lang", "en")>>) }
NoRequest == Request(<<>>)

\* cloneRequest: a copy of the struct with a header map of its own.
cloneRequest(r) == [Cookie |-> r.Cookie]
\* req.AddCookie(c): appends the pair to the Cookie header.
AddCookie(r, c) == [r EXCEPT !.Cookie = Append(@, c)]

\* RoundTrip, lines 340-345: the loop over the cached cookies.
RECURSIVE AddSessionCookies_All(_, _)
AddSessionCookies_All(r, cookies) ==
    IF cookies = <<>> THEN r
    ELSE AddSessionCookies_All(AddCookie(r, Head(cookies)), Tail(cookies))

RECURSIVE AddSessionCookies(_, _)
AddSessionCookies(r, cookies) ==
    IF cookies = <<>> THEN r
    ELSE AddSessionCookies(
             IF Head(cookies).Value # "" THEN AddCookie(r, Head(cookies)) ELSE r,
             Tail(cookies))

\* ---- the cookie cache -----------------------------------------------------
\* t.SessionObject: a nil slice, or a slice (possibly empty) of cookies.
NilSession    == [isNil |-> TRUE,  cookies |-> <<>>]
Session(list) == [isNil |-> FALSE, cookies |-> list]

\* Responses of the login endpoint and of the underlying transport.
NoAuthResponse == [StatusCode |-> 0, cookies |-> <<>>]
AuthStatusCodes == { 200, 401 }
NoRoundTripResponse == [present |-> FALSE, StatusCode |-> 0]

VARIABLES
    SessionObject,  \* t.SessionObject, shared by all callers
    authURLOk,      \* whether t.AuthURL makes a request (http.NewRequest accepts it)
    logins,         \* login exchanges sent since the cache was last unset
    loginFailures,  \* those of them that failed
    rt              \* per caller: the locals of its RoundTrip call

cookieVars == <<SessionObject, authURLOk, logins, loginFailures, rt>>

IdleCall ==
    [pc       |-> "idle",          \* where the call stands
     req      |-> NoRequest,       \* the caller's request
     req2     |-> NoRequest,       \* the clone RoundTrip sends
     attempts |-> 0,               \* login exchanges this call has sent
     authErr  |-> "nil",           \* setSessionObject's error: nil, build, do
     authResp |-> NoAuthResponse,  \* setSessionObject's resp
     sent     |-> <<>>,            \* the requests handed to the underlying transport
     resp     |-> NoRoundTripResponse,  \* RoundTrip's result
     err      |-> "nil"]           \* RoundTrip's error: nil, auth, transport

\* A transport as constructed: nothing cached, nobody calling.
NewTransport(urlOk) ==
    /\ SessionObject = NilSession
    /\ authURLOk = urlOk
    /\ logins = 0
    /\ loginFailures = 0
    /\ rt = [t \in Callers |-> IdleCall]

InitCookie == \E urlOk \in BOOLEAN : NewTransport(urlOk)

\* ---- unsynchronized reads of t.SessionObject --------------------------------
\* The assignment of line 372 writes a slice header (pointer, length) that no
\* lock guards.  A read that runs while another caller is writing may see the
\* old header, the new one, or the pointer of one with the length of the
\* other: a prefix, or a fault when the length exceeds what the pointer holds.
Observed(crash, v) == [crash |-> crash, val |-> v]
Mixed(ptrOf, lenOf) ==
    IF Len(lenOf.cookies) <= Len(ptrOf.cookies)
    THEN Observed(FALSE, [isNil |-> ptrOf.isNil,
                          cookies |-> SubSeq(ptrOf.cookies, 1, Len(lenOf.cookies))])
    ELSE Observed(TRUE, NilSession)
TornReads(old, new) == { Mixed(old, old), Mixed(new, new), Mixed(old, new), Mixed(new, old) }

Writers(t) == { u \in Callers \ {t} : rt[u].pc = "storing" }
ReadSession(t) ==
    { Observed(FALSE, SessionObject) }
        \cup UNION { TornReads(SessionObject, Session(rt[u].authResp.cookies)) : u \in Writers(t) }

\* ---- RoundTrip, line 332: if t.SessionObject == nil -------------------------
NeedsLogin_Once(seenNil) == seenNil /\ loginFailures = 0
NeedsLogin_Always(seenNil) == TRUE
NeedsLogin(seenNil) == seenNil

RoundTrip(t) ==
    /\ rt[t].pc = "idle"
    /\ logins < MaxLogins
    /\ \E r \in CallerRequests, o \in ReadSession(t) :
         /\ ~o.crash
         /\ rt' = [rt EXCEPT ![t] = [IdleCall EXCEPT
                !.req = r,
                !.pc = IF NeedsLogin(o.val.isNil) THEN "login" ELSE "clone"]]
    /\ UNCHANGED <<SessionObject, authURLOk, logins, loginFailures>>

\* ---- RoundTrip, lines 333-336: setSessionObject failed ------------------------
\* return nil, fmt.Errorf("cookieauth: no session object has been set: %w", err)
FailRoundTrip_GoOn(call, why) == [call EXCEPT !.authErr = why, !.pc = "clone"]
FailRoundTrip(call, why) == [call EXCEPT !.authErr = why, !.err = "auth", !.pc = "done"]

\* ---- setSessionObject, lines 359-370 -----------------------------------------
\* buildAuthRequest fails on a bad AuthURL: nothing is sent.  Otherwise the
\* login request is sent: authClient.Do fails, or answers with any status and
\* any cookies.
Login(t) ==
    /\ rt[t].pc = "login"
    /\ IF ~authURLOk
       THEN /\ rt' = [rt EXCEPT ![t] = FailRoundTrip(rt[t], "build")]
            /\ UNCHANGED <<logins, loginFailures>>
       ELSE /\ logins' = logins + 1
            /\ \E failed \in BOOLEAN, c \in AuthStatusCodes, cs \in CookieLists :
                 IF failed
                 THEN /\ c = 200 /\ cs = <<>>
                      /\ loginFailures' = loginFailures + 1
                      /\ rt' = [rt EXCEPT ![t] =
                                   FailRoundTrip([rt[t] EXCEPT !.attempts = @ + 1], "do")]
                 ELSE /\ UNCHANGED loginFailures
                      /\ rt' = [rt EXCEPT ![t].attempts = @ + 1,
                                          ![t].authResp = [StatusCode |-> c, cookies |-> cs],
                                          ![t].pc = "store"]
    /\ UNCHANGED <<SessionObject, authURLOk>>

\* ---- setSessionObject, line 372: t.SessionObject = resp.Cookies() -----------
StoreBegin(t) ==
    /\ rt[t].pc = "store"
    /\ rt' = [rt EXCEPT ![t].pc = "storing"]
    /\ UNCHANGED <<SessionObject, authURLOk, logins, loginFailures>>

StoreEnd(t) ==
    /\ rt[t].pc = "storing"
    /\ SessionObject' = Session(rt[t].authResp.cookies)
    /\ rt' = [rt EXCEPT ![t].pc = "clone"]
    /\ UNCHANGED <<authURLOk, logins, loginFailures>>

\* ---- RoundTrip, lines 339-345: clone the request, add the cached cookies ----
Attach(t) ==
    /\ rt[t].pc = "clone"
    /\ \E o \in ReadSession(t) :
         IF o.crash
         THEN rt' = [rt EXCEPT ![t].pc = "panic"]
         ELSE rt' = [rt EXCEPT ![t].req2 = AddSessionCookies(cloneRequest(rt[t].req), o.val.cookies),
                               ![t].pc = "send"]
    /\ UNCHANGED <<SessionObject, authURLOk, logins, loginFailures>>

\* ---- RoundTrip, line 347: return t.transport().RoundTrip(req2) --------------
\* The underlying transport fails, or answers with any status (401 included).
Send(t) ==
    /\ rt[t].pc = "send"
    /\ \E failed \in BOOLEAN, c \in AuthStatusCodes :
         /\ failed => c = 200
         /\ rt' = [rt EXCEPT ![t].sent = Append(@, rt[t].req2),
                             ![t].resp = IF failed THEN NoRoundTripResponse
                                         ELSE [present |-> TRUE, StatusCode |-> c],
                             ![t].err = IF failed THEN "transport" ELSE "nil",
                             ![t].pc = "done"]
    /\ UNCHANGED <<SessionObject, authURLOk, logins, loginFailures>>

\* ---- the caller is through with what RoundTrip returned ---------------------
RoundTripDone(t) ==
    /\ rt[t].pc = "done"
    /\ rt' = [rt EXCEPT ![t] = IdleCall]
    /\ UNCHANGED <<SessionObject, authURLOk, logins, loginFailures>>

\* ---- the caller resets the cache between calls: t.SessionObject = nil -------
ResetCache ==
    /\ \A t \in Callers : rt[t].pc = "idle"
    /\ ~SessionObject.isNil \/ logins > 0
    /\ SessionObject' = NilSession
    /\ logins' = 0
    /\ loginFailures' = 0
    /\ UNCHANGED <<authURLOk, rt>>

(***************************************************************************)
(*            PART 3: JWTAuthTransport.canonicalizeRequest                 *)
(***************************************************************************)
MaxParams == 3       \* most query parameters in a URL

\* ---- strings ----------------------------------------------------------------
\* A string is the sequence of its bytes; Code is the byte value, which is what
\* sort.Strings compares.
Code(ch) ==
    CASE ch = " " -> 32 [] ch = "%" -> 37 [] ch = "&" -> 38 [] ch = "+" -> 43
      [] ch = "/" -> 47 [] ch = "0" -> 48 [] ch = "1" -> 49 [] ch = "2" -> 50
      [] ch = "6" -> 54 [] ch = "=" -> 61 [] ch = "B" -> 66 [] ch = "D" -> 68
      [] ch = "E" -> 69 [] ch = "F" -> 70 [] ch = "G" -> 71 [] ch = "T" -> 84
      [] ch = "a" -> 97 [] ch = "b" -> 98 [] ch = "e" -> 101 [] ch = "g" -> 103
      [] ch = "j" -> 106 [] ch = "t" -> 116 [] ch = "w" -> 119

\* s < t as Go compares strings: bytewise, a proper prefix first.
RECURSIVE StringLess(_, _)
StringLess(s, t) ==
    IF t = <<>> THEN FALSE
    ELSE IF s = <<>> THEN TRUE
    ELSE IF Head(s) = Head(t) THEN StringLess(Tail(s), Tail(t))
    ELSE Code(Head(s)) < Code(Head(t))

\* strings.Join(list, sep)
RECURSIVE Join(_, _)
Join(list, sep) ==
    IF list = <<>> THEN <<>>
    ELSE IF Len(list) = 1 THEN Head(list)
    ELSE Head(list) \o sep \o Join(Tail(list), sep)

\* strings.Replace(s, old, new, -1) for a one-byte old.
RECURSIVE Replace(_, _, _)
Replace(s, old, new) ==
    IF s = <<>> THEN <<>>
    ELSE (IF Head(s) = old THEN new ELSE <<Head(s)>>) \o Replace(Tail(s), old, new)

\* strings.Trim(s, cut) for a one-byte cutset.
RECURSIVE TrimLeft(_, _)
TrimLeft(s, cut) ==
    IF s # <<>> /\ Head(s) = cut THEN TrimLeft(Tail(s), cut) ELSE s
RECURSIVE TrimRight(_, _)
TrimRight(s, cut) ==
    IF s # <<>> /\ s[Len(s)] = cut THEN TrimRight(SubSeq(s, 1, Len(s) - 1), cut) ELSE s
Trim(s, cut) == TrimRight(TrimLeft(s, cut), cut)

\* strings.ToUpper
UpperByte(ch) ==
    CASE ch = "e" -> "E" [] ch = "g" -> "G" [] ch = "t" -> "T" [] OTHER -> ch
ToUpper(s) == [i \in 1 .. Len(s) |-> UpperByte(s[i])]

\* url.QueryEscape: letters and digits stay, a space becomes '+', every other
\* byte becomes %XX.
EscapeByte(ch) ==
    CASE ch = " " -> <<"+">>
      [] ch = "%" -> <<"%", "2", "5">>
      [] ch = "&" -> <<"%", "2", "6">>
      [] ch = "+" -> <<"%", "2", "B">>
      [] ch = "/" -> <<"%", "2", "F">>
      [] ch = "=" -> <<"%", "3", "D">>
      [] OTHER -> <<ch>>
RECURSIVE QueryEscape(_)
QueryEscape(s) ==
    IF s = <<>> THEN <<>> ELSE EscapeByte(Head(s)) \o QueryEscape(Tail(s))

\* sort.Strings: insertion into a sorted list.
RECURSIVE InsertSorted(_, _)
InsertSorted(x, sorted) ==
    IF sorted = <<>> THEN <<x>>
    ELSE IF StringLess(Head(sorted), x) THEN <<Head(sorted)>> \o InsertSorted(x, Tail(sorted))
    ELSE <<x>> \o sorted
RECURSIVE SortStrings(_)
SortStrings(list) ==
    IF list = <<>> THEN <<>> ELSE InsertSorted(Head(list), SortStrings(Tail(list)))

\* ---- URLs -------------------------------------------------------------------
\* *url.URL: the path, and the query as its decoded key=value pairs in the
\* order the URL lists them.
Param(k, v) == [key |-> k, value |-> v]
URL(path, query) == [Path |-> path, RawQuery |-> query]

JwtKey == <<"j", "w", "t">>
ParamKeys   == { <<"a">>, <<"b">>, JwtKey }
ParamValues == { <<"1">>, <<" ">> }
Params  == { Param(k, v) : k \in ParamKeys, v \in ParamValues }
Queries == SeqsUpTo(Params, MaxParams)
Paths   == { <<"/", "a">>, <<"/", "a", "/">>, <<"/", "a", "&", "b">> }
Methods == { <<"g", "e", "t">>, <<"G", "E", "T">> }
URLs    == { URL(p, q) : p \in Paths, q \in Queries }

\* jiraURL.Query(): url.Values, a map from each key to its values in the order
\* the URL lists them.
RECURSIVE ValuesOf(_, _)
ValuesOf(query, k) ==
    IF query = <<>> THEN <<>>
    ELSE (IF Head(query).key = k THEN <<Head(query).value>> ELSE <<>>)
             \o ValuesOf(Tail(query), k)
QueryKeys(query) == { query[i].key : i \in 1 .. Len(query) }

\* The orders in which a range over the map may visit its keys.
KeyOrders(keys) ==
    { o \in [1 .. Cardinality(keys) -> keys] : \A k \in keys : \E i \in DOMAIN o : o[i] = k }

\* canonicalizeRequest, lines 469-471: if k == "jwt" { continue }
SkipsKey_None(k) == FALSE
SkipsKey(k) == k = JwtKey

\* canonicalizeRequest, lines 468-475: the loop, for one visiting order.
RECURSIVE canonicalQueryString(_, _)
canonicalQueryString(query, order) ==
    IF order = <<>> THEN <<>>
    ELSE LET k == Head(order)
             param == QueryEscape(k)
             value == QueryEscape(Join(ValuesOf(query, k), <<>>))
         IN  (IF SkipsKey(k) THEN <<>>
              ELSE << Replace(Join(<<param, value>>, <<"=">>), "+", <<"%", "2", "0">>) >>)
                 \o canonicalQueryString(query, Tail(order))

\* canonicalizeRequest, lines 464-478, for one visiting order of the map.
canonicalizeRequestIn(httpMethod, jiraURL, order) ==
    LET path == <<"/">> \o Replace(Trim(jiraURL.Path, "/"), "&", <<"%", "2", "6">>)
        sorted == SortStrings(canonicalQueryString(jiraURL.RawQuery, order))
    IN  ToUpper(httpMethod) \o <<"&">> \o path \o <<"&">> \o Join(sorted, <<"&">>)

\* canonicalizeRequest for the order this run of the program happens to take.
AnyOrder(keys) == CHOOSE o \in KeyOrders(keys) : TRUE
canonicalizeRequest(httpMethod, jiraURL) ==
    canonicalizeRequestIn(httpMethod, jiraURL, AnyOrder(QueryKeys(jiraURL.RawQuery)))

\* createQueryStringHash: hex.EncodeToString(sha256.Sum256(canonical)).  The
\* digest is kept as the tagged string it is the digest of.
Sha256Hex(s) == <<"sha256">> \o s
createQueryStringHash(httpMethod, jiraURL) == Sha256Hex(canonicalizeRequest(httpMethod, jiraURL))

VARIABLES
    canonIn,     \* the method and URL handed to canonicalizeRequest
    canonOut     \* what it returned

canonVars == <<canonIn, canonOut>>

NotCalled == <<"?">>
CanonInput(m, u) == [httpMethod |-> m, jiraURL |-> u]

InitCanon ==
    /\ canonIn \in { CanonInput(m, u) : m \in Methods, u \in URLs }
    /\ canonOut = NotCalled
CanonUnused ==
    /\ canonIn = CanonInput(<<"G", "E", "T">>, URL(<<"/", "a">>, <<>>))
    /\ canonOut = NotCalled

\* One call; the range over the map visits the keys in any order.
Canonicalize ==
    /\ canonOut = NotCalled
    /\ \E order \in KeyOrders(QueryKeys(canonIn.jiraURL.RawQuery)) :
         canonOut' = canonicalizeRequestIn(canonIn.httpMethod, canonIn.jiraURL, order)
    /\ UNCHANGED canonIn

(***************************************************************************)
(*      PART 4: cloneRequest and the Basic, Cookie and JWT RoundTrip       *)
(***************************************************************************)
MaxValues == 1       \* most values under one header key of the caller's request
MaxClock  == 3       \* last clock tick of a run
MaxAdvance == 1      \* most ticks the clock moves between two reads of it
TicksPerSecond == 2  \* clock ticks in one second
TokenLifetime == 59  \* exp := time.Duration(59) * time.Second

\* ---- header values ----------------------------------------------------------
\* A header value is a string: its scheme word, its plain text, the signed
\* token after "JWT ", and the name=value pairs joined with "; ".
Claims(iss, iat, exp, qsh) == [iss |-> iss, iat |-> iat, exp |-> exp, qsh |-> qsh]
\* token.SignedString(key): the claims under the signature of the key.
SignedString(claims, key) == [claims |-> claims, key |-> key]
NoToken == SignedString(Claims("", 0, 0, <<>>), "")

HeaderValue(scheme, text, token, cookies) ==
    [scheme |-> scheme, text |-> text, token |-> token, cookies |-> cookies]
Plain(text) == HeaderValue("", text, NoToken, <<>>)
EmptyString == Plain(<<>>)
\* "Basic " + base64(username + ":" + password)
BasicValue(username, password) == HeaderValue("Basic", <<username, ":", password>>, NoToken, <<>>)
\* fmt.Sprintf("JWT %s", jwtStr)
JWTValue(jwtStr) == HeaderValue("JWT", <<>>, jwtStr, <<>>)
\* c + "; " + s, and s alone, for s the name=value of a cookie
WithCookie(c, cookie) == [c EXCEPT !.cookies = Append(@, cookie)]

HeaderKeys == { "Authorization", "Cookie" }
HeaderKeyOrder == << "Authorization", "Cookie" >>
CallerTexts == { Plain(<<"x">>), Plain(<<"y">>) }

\* ---- the heap: header maps and the arrays behind their value slices ---------
MapIds == 1 .. 2
ArrIds == 1 .. (2 * Cardinality(HeaderKeys) + MaxCookies + 1)

\* A []string: the array it points into and its length; or no entry in the map.
Slice(arr, len) == [present |-> TRUE, arr |-> arr, len |-> len]
NilSlice == Slice(0, 0)
Absent == [present |-> FALSE, arr |-> 0, len |-> 0]
EmptyHeader == [k \in HeaderKeys |-> Absent]

EmptyHeap ==
    [maps |-> [m \in MapIds |-> EmptyHeader], liveMaps |-> {},
     arrays |-> [a \in ArrIds |-> <<>>], liveArrs |-> {}]

FreeMap(h) == CHOOSE m \in MapIds \ h.liveMaps : \A n \in MapIds \ h.liveMaps : m <= n
FreeArr(h) == CHOOSE a \in ArrIds \ h.liveArrs : \A b \in ArrIds \ h.liveArrs : a <= b

\* make(http.Header, n)
MakeHeader(h) ==
    LET m == FreeMap(h) IN
    [heap |-> [h EXCEPT !.maps[m] = EmptyHeader, !.liveMaps = @ \cup {m}], map |-> m]

\* A new array holding the given strings.
MakeArray(h, strings) ==
    LET a == FreeArr(h) IN
    [heap |-> [h EXCEPT !.arrays[a] = strings, !.liveArrs = @ \cup {a}], arr |-> a]

\* The strings a slice holds.
Strings(h, s) == IF s.len = 0 THEN <<>> ELSE SubSeq(h.arrays[s.arr], 1, s.len)
Capacity(h, s) == IF s.arr = 0 THEN 0 ELSE Len(h.arrays[s.arr])

\* h[key] = []string{value}  (Header.Set)
HeaderSet(h, m, key, value) ==
    LET new == MakeArray(h, <<value>>) IN
    [new.heap EXCEPT !.maps[m][key] = Slice(new.arr, 1)]

\* h[key] = append(h[key], value)  (Header.Add): in place while the array
\* has room, else into a new array of twice the size.
Padding(n) == [i \in 1 .. n |-> EmptyString]
HeaderAdd(h, m, key, value) ==
    LET s == h.maps[m][key] IN
    IF s.present /\ s.len < Capacity(h, s)
    THEN [h EXCEPT !.arrays[s.arr][s.len + 1] = value, !.maps[m][key] = Slice(s.arr, s.len + 1)]
    ELSE LET old == IF s.present THEN Strings(h, s) ELSE <<>>
             new == MakeArray(h, old \o <<value>> \o Padding(IF Len(old) <= 1 THEN 0 ELSE Len(old) - 1))
         IN  [new.heap EXCEPT !.maps[m][key] = Slice(new.arr, Len(old) + 1)]

\* delete(h, key)  (Header.Del)
HeaderDel(h, m, key) == [h EXCEPT !.maps[m][key] = Absent]

\* h[key][i] = value
HeaderWrite(h, m, key, i, value) ==
    [h EXCEPT !.arrays[h.maps[m][key].arr][i] = value]

\* Header.Get: the first value under the key, or "".
HeaderGet(h, m, key) ==
    LET s == h.maps[m][key] IN
    IF s.present /\ s.len > 0 THEN h.arrays[s.arr][1] ELSE EmptyString

\* What the garbage collector leaves: the maps of the live requests and the
\* arrays their entries point into.  The collector compacts: the arrays that
\* stay are renumbered in the order in which the live maps refer to them.
Collect(h, requests) ==
    LET liveMaps == { r.Header : r \in requests }
        liveArrs == { h.maps[m][k].arr : m \in liveMaps, k \in HeaderKeys } \ {0}
        nk == Len(HeaderKeyOrder)
        \* the array behind the i-th entry, maps by number, keys in key order
        RefAt(i) == LET m == ((i - 1) \div nk) + 1
                        k == HeaderKeyOrder[((i - 1) % nk) + 1]
                    IN  IF m \in liveMaps THEN h.maps[m][k].arr ELSE 0
        FirstAt(a) == CHOOSE i \in 1 .. (nk * Cardinality(MapIds)) :
                          RefAt(i) = a /\ \A j \in 1 .. i - 1 : RefAt(j) # a
        NewId(a) == IF a = 0 THEN 0
                    ELSE Cardinality({ b \in liveArrs : FirstAt(b) <= FirstAt(a) })
        OldId(n) == CHOOSE a \in liveArrs : NewId(a) = n
        moved == 1 .. Cardinality(liveArrs)
    IN  [maps |-> [m \in MapIds |->
                     IF m \in liveMaps
                     THEN [k \in HeaderKeys |-> [h.maps[m][k] EXCEPT !.arr = NewId(@)]]
                     ELSE EmptyHeader],
         liveMaps |-> liveMaps,
         arrays |-> [n \in ArrIds |-> IF n \in moved THEN h.arrays[OldId(n)] ELSE <<>>],
         liveArrs |-> moved]

\* ---- requests ---------------------------------------------------------------
\* *http.Request: method, URL, and the reference to its header map.
HttpRequest(method, url, header) == [Method |-> method, URL |-> url, Header |-> header]
NoHttpRequest == HttpRequest(<<>>, URL(<<>>, <<>>), 0)

\* The headers of a request as a reader of it sees them.
HeaderView(h, r) ==
    [k \in HeaderKeys |->
        [present |-> h.maps[r.Header][k].present, values |-> Strings(h, h.maps[r.Header][k])]]
\* The request as the underlying transport receives it.
Received(h, r) == [Method |-> r.Method, URL |-> r.URL, Header |-> HeaderView(h, r)]

\* cloneRequest, lines 488-490: r2.Header[k] = append([]string(nil), s...)
RECURSIVE CopyEntries(_, _, _, _)
CopyEntries(h, from, to, keys) ==
    IF keys = <<>> THEN h
    ELSE LET k == Head(keys)
             s == h.maps[from][k]
         IN  IF ~s.present THEN CopyEntries(h, from, to, Tail(keys))
             ELSE IF s.len = 0
             THEN CopyEntries([h EXCEPT !.maps[to][k] = NilSlice], from, to, Tail(keys))
             ELSE LET new == MakeArray(h, Strings(h, s))
                  IN  CopyEntries([new.heap EXCEPT !.maps[to][k] = Slice(new.arr, s.len)],
                                  from, to, Tail(keys))

\* cloneRequest with the struct copied and the header map shared.
CloneRequest_Shallow(h, r) == [heap |-> h, req |-> r]
\* cloneRequest, lines 482-492.
CloneRequest(h, r) ==
    LET made == MakeHeader(h) IN
    [heap |-> CopyEntries(made.heap, r.Header, made.map, HeaderKeyOrder),
     req  |-> [r EXCEPT !.Header = made.map]]

\* req.SetBasicAuth(username, password)
SetBasicAuth(h, r, username, password) ==
    HeaderSet(h, r.Header, "Authorization", BasicValue(username, password))

\* req.AddCookie(c): the Cookie header becomes "<old>; name=value", or
\* "name=value" when there was none.
RequestAddCookie(h, r, cookie) ==
    HeaderSet(h, r.Header, "Cookie", WithCookie(HeaderGet(h, r.Header, "Cookie"), cookie))

\* RoundTrip of the cookie transport, lines 340-345, on the request's header.
RECURSIVE AttachSessionCookies(_, _, _)
AttachSessionCookies(h, r, cookies) ==
    IF cookies = <<>> THEN h
    ELSE AttachSessionCookies(
             IF Head(cookies).Value # "" THEN RequestAddCookie(h, r, Head(cookies)) ELSE h,
             r, Tail(cookies))

\* ---- state ------------------------------------------------------------------
Transports == { "none", "basic", "cookie", "jwt" }

VARIABLES
    heap,        \* the header maps and value arrays that are alive
    req,         \* the caller's request
    req2,        \* the clone the caller made of it itself
    mutated,     \* which of the two the caller's last header change went to
    transport,   \* the Transport of the caller's http.Client
    now,         \* the wall clock, in ticks
    trip         \* the last RoundTrip call: what was sent, what came back

authVars == <<heap, req, req2, mutated, transport, now, trip>>

\* The fields of the transports.
Username == "fred"
Password == "secret"
Issuer   == "add-on"
Secret   == "key"

\* time.Time.Unix(): whole seconds.
Unix(t) == t \div TicksPerSecond

\* What a RoundTrip call did and returned.
NoCall ==
    [kind   |-> "none",
     sent   |-> <<>>,                 \* requests handed to the underlying transport
     failed |-> FALSE,                \* the underlying transport returned an error
     resp   |-> NoRoundTripResponse,  \* RoundTrip's response
     err    |-> "nil",                \* RoundTrip's error: nil, sign, auth, transport
     minted |-> FALSE,                \* a token was built
     token  |-> NoToken.claims]       \* its claims

\* return t.transport().RoundTrip(req2): the underlying transport fails, or
\* answers with any status.
Delivered(kind, received, failed, c, minted, claims) ==
    [kind |-> kind, sent |-> <<received>>, failed |-> failed,
     resp |-> IF failed THEN NoRoundTripResponse ELSE [present |-> TRUE, StatusCode |-> c],
     err |-> IF failed THEN "transport" ELSE "nil",
     minted |-> minted, token |-> claims]

\* JWT RoundTrip, lines 450-452: return nil, fmt.Errorf("jwtAuth: error signing JWT: %w", err)
SigningError_Sends(unsigned, claims) ==
    [NoCall EXCEPT !.kind = "jwt", !.err = "sign", !.sent = <<unsigned>>,
                   !.minted = TRUE, !.token = claims]
SigningError(unsigned, claims) ==
    [NoCall EXCEPT !.kind = "jwt", !.err = "sign", !.minted = TRUE, !.token = claims]

\* Cookie RoundTrip, lines 333-336, seen from the caller.
AuthenticationError == [NoCall EXCEPT !.kind = "cookie", !.err = "auth"]

\* ---- the caller's request as constructed -----------------------------------
HeaderContents ==
    [HeaderKeys -> { [present |-> FALSE, values |-> <<>>] }
                      \cup { [present |-> TRUE, values |-> l] :
                                l \in SeqsUpTo({ Plain(<<"x">>) }, MaxValues) }]

RECURSIVE FillHeader(_, _, _, _)
FillHeader(h, m, content, keys) ==
    IF keys = <<>> THEN h
    ELSE LET k == Head(keys) IN
         IF ~content[k].present THEN FillHeader(h, m, content, Tail(keys))
         ELSE IF content[k].values = <<>>
         THEN FillHeader([h EXCEPT !.maps[m][k] = NilSlice], m, content, Tail(keys))
         ELSE LET new == MakeArray(h, content[k].values)
              IN  FillHeader([new.heap EXCEPT !.maps[m][k] = Slice(new.arr, Len(content[k].values))],
                             m, content, Tail(keys))

\* http.NewRequest and the caller's own headers.
NewRequestWith(method, url, content) ==
    LET made == MakeHeader(EmptyHeap) IN
    [heap |-> FillHeader(made.heap, made.map, content, HeaderKeyOrder),
     req  |-> HttpRequest(method, url, made.map)]

GetMethod == <<"G", "E", "T">>
PlainURL  == URL(<<"/", "a">>, <<>>)
CallerURLs == { PlainURL, URL(<<"/", "a", "/">>, << Param(<<"b">>, <<"1">>), Param(JwtKey, <<"1">>) >>) }

AuthStart(kind, url, content) ==
    LET new == NewRequestWith(GetMethod, url, content) IN
    /\ transport = kind
    /\ heap = new.heap
    /\ req = new.req
    /\ req2 = NoHttpRequest
    /\ mutated = "none"
    /\ now = 0
    /\ trip = NoCall

\* Any transport, any request; the URL matters to the JWT transport alone.
InitAuth ==
    \E kind \in Transports, url \in CallerURLs, content \in HeaderContents :
        /\ kind # "jwt" => url = PlainURL
        /\ AuthStart(kind, url, content)
AuthUnused == AuthStart("none", PlainURL, [k \in HeaderKeys |-> [present |-> FALSE, values |-> <<>>]])

\* ---- the caller clones and changes headers itself ---------------------------
Live == { req, req2 } \ { NoHttpRequest }

CallCloneRequest ==
    /\ transport = "none"
    /\ req2 = NoHttpRequest
    /\ LET c == CloneRequest(heap, req) IN
         /\ heap' = c.heap
         /\ req2' = c.req
    /\ mutated' = "none"
    /\ UNCHANGED <<req, transport, now, trip>>

Target(which) == IF which = "req" THEN req ELSE req2
Targets == { which \in { "req", "req2" } : Target(which) # NoHttpRequest }

\* r.Header.Set(k, v)
SetHeader ==
    /\ transport = "none"
    /\ \E which \in Targets, k \in HeaderKeys, v \in CallerTexts :
         /\ heap' = Collect(HeaderSet(heap, Target(which).Header, k, v), Live)
         /\ mutated' = which
    /\ UNCHANGED <<req, req2, transport, now, trip>>

\* r.Header.Add(k, v)
AddHeader ==
    /\ transport = "none"
    /\ \E which \in Targets, k \in HeaderKeys, v \in CallerTexts :
         /\ heap.maps[Target(which).Header][k].len < MaxValues
         /\ heap' = Collect(HeaderAdd(heap, Target(which).Header, k, v), Live)
         /\ mutated' = which
    /\ UNCHANGED <<req, req2, transport, now, trip>>

\* r.Header.Del(k)
DelHeader ==
    /\ transport = "none"
    /\ \E which \in Targets, k \in HeaderKeys :
         /\ heap.maps[Target(which).Header][k].present
         /\ heap' = Collect(HeaderDel(heap, Target(which).Header, k), Live)
         /\ mutated' = which
    /\ UNCHANGED <<req, req2, transport, now, trip>>

\* r.Header[k][i] = v
WriteHeader ==
    /\ transport = "none"
    /\ \E which \in Targets, k \in HeaderKeys, v \in CallerTexts :
         \E i \in 1 .. heap.maps[Target(which).Header][k].len :
             /\ heap' = HeaderWrite(heap, Target(which).Header, k, i, v)
             /\ mutated' = which
    /\ UNCHANGED <<req, req2, transport, now, trip>>

\* The caller lets go of its clone.
DropClone ==
    /\ transport = "none"
    /\ req2 # NoHttpRequest
    /\ req2' = NoHttpRequest
    /\ heap' = Collect(heap, {req})
    /\ mutated' = "none"
    /\ UNCHANGED <<req, transport, now, trip>>

\* ---- BasicAuthTransport.RoundTrip, lines 286-291 -----------------------------
BasicRoundTrip ==
    /\ transport = "basic"
    /\ \E failed \in BOOLEAN, c \in AuthStatusCodes :
         LET cl == CloneRequest(heap, req)
             h2 == SetBasicAuth(cl.heap, cl.req, Username, Password)
         IN  /\ failed => c = 200
             /\ trip' = Delivered("basic", Received(h2, cl.req), failed, c, FALSE, NoToken.claims)
             /\ heap' = Collect(h2, {req})
    /\ UNCHANGED <<req, req2, mutated, transport, now>>

\* ---- JWTAuthTransport.RoundTrip, lines 438-456 -------------------------------
\* The clock is read twice (lines 444 and 445) and may move in between.
JWTRoundTrip ==
    /\ transport = "jwt"
    /\ \E d \in 0 .. MaxAdvance, signed \in BOOLEAN, failed \in BOOLEAN, c \in AuthStatusCodes :
         LET cl == CloneRequest(heap, req)
             exp == TokenLifetime
             qsh == createQueryStringHash(req.Method, cl.req.URL)
             claims == Claims(Issuer, Unix(now), Unix(now + d) + exp, qsh)
             jwtStr == SignedString(claims, Secret)
             h2 == HeaderSet(cl.heap, cl.req.Header, "Authorization", JWTValue(jwtStr))
         IN  /\ now + d <= MaxClock
             /\ (failed \/ ~signed) => c = 200
             /\ ~signed => ~failed
             /\ now' = now + d
             /\ trip' = IF ~signed THEN SigningError(Received(cl.heap, cl.req), claims)
                        ELSE Delivered("jwt", Received(h2, cl.req), failed, c, TRUE, claims)
             /\ heap' = Collect(IF signed THEN h2 ELSE cl.heap, {req})
    /\ UNCHANGED <<req, req2, mutated, transport>>

\* Time passes between calls.
Tick ==
    /\ transport = "jwt"
    /\ now < MaxClock
    /\ now' = now + 1
    /\ UNCHANGED <<heap, req, req2, mutated, transport, trip>>

\* ---- CookieAuthTransport.RoundTrip, lines 331-348, one call as one step ------
\* No other caller is inside RoundTrip: the login exchange (if the cache is
\* unset), the clone, the cookie loop and the send follow one another.
CookieRoundTripAlone ==
    /\ transport = "cookie"
    /\ logins < MaxLogins
    /\ \E loginFailed \in BOOLEAN, cs \in CookieLists, failed \in BOOLEAN, c \in AuthStatusCodes :
         LET needs == NeedsLogin(SessionObject.isNil)
             exchanged == needs /\ authURLOk
             authFailed == needs /\ (~authURLOk \/ loginFailed)
             session == IF needs /\ ~authFailed THEN Session(cs) ELSE SessionObject
             cl == CloneRequest(heap, req)
             h2 == AttachSessionCookies(cl.heap, cl.req, session.cookies)
         IN  /\ (~needs \/ loginFailed) => cs = <<>>
             /\ ~needs => ~loginFailed
             /\ (failed \/ authFailed) => c = 200
             /\ authFailed => ~failed
             /\ SessionObject' = session
             /\ logins' = IF exchanged THEN logins + 1 ELSE logins
             /\ loginFailures' = IF exchanged /\ loginFailed THEN loginFailures + 1 ELSE loginFailures
             /\ trip' = IF authFailed THEN AuthenticationError
                        ELSE Delivered("cookie", Received(h2, cl.req), failed, c, FALSE, NoToken.claims)
             /\ heap' = Collect(IF authFailed THEN heap ELSE h2, {req})
    /\ UNCHANGED <<authURLOk, rt, req, req2, mutated, transport, now>>

(***************************************************************************)
(*                    PART 5: Client.NewRawRequest                         *)
(***************************************************************************)
MaxOptions == 2      \* most request options handed to one call

\* ---- request options --------------------------------------------------------
\* An HttpRequestOption is a function on the request: it may write to the
\* request (leaving its tag there) and it may return an error, in either order.
OptionTags == { "A", "B" }
Option(tag, writes, fails) == [tag |-> tag, writes |-> writes, fails |-> fails]
Options ==
    { Option(g, w, f) : g \in OptionTags, w \in BOOLEAN, f \in BOOLEAN } \
        { Option(g, FALSE, FALSE) : g \in OptionTags }
OptionLists == SeqsUpTo(Options, MaxOptions)

\* ---- the request being built ------------------------------------------------
NoBasicAuth == [set |-> FALSE, username |-> "", password |-> ""]
RawRequest(contentType, cookies, basic, applied) ==
    [ContentType |-> contentType, Cookie |-> cookies, BasicAuth |-> basic, applied |-> applied]
NilRawRequest == RawRequest("", <<>>, NoBasicAuth, <<>>)

\* The error NewRawRequest returns: nil, url (line 122), request (line 133),
\* or the error of the option at a place in the list.
RawError(kind, at) == [kind |-> kind, at |-> at]
RawResult(r, built, err) == [req |-> r, built |-> built, err |-> err]

\* opt(req)
ApplyOption(r, opt) == IF opt.writes THEN [r EXCEPT !.applied = Append(@, opt.tag)] ELSE r

\* The loop over the options that does not stop at an error.
RECURSIVE ApplyOptions_GoOn(_, _, _)
ApplyOptions_GoOn(r, options, i) ==
    IF i > Len(options) THEN RawResult(r, TRUE, RawError("nil", 0))
    ELSE LET rest == ApplyOptions_GoOn(ApplyOption(r, options[i]), options, i + 1) IN
         IF options[i].fails THEN RawResult(rest.req, TRUE, RawError("option", i)) ELSE rest

\* NewRawRequest, lines 153-160: the loop over the options and the return.
RECURSIVE ApplyOptions(_, _, _)
ApplyOptions(r, options, i) ==
    IF i > Len(options) THEN RawResult(r, TRUE, RawError("nil", 0))
    ELSE LET next == ApplyOption(r, options[i]) IN
         IF options[i].fails THEN RawResult(next, TRUE, RawError("option", i))
         ELSE ApplyOptions(next, options, i + 1)

\* NewRawRequest, lines 142-144: req.AddCookie for every cookie of the session.
RECURSIVE AddClientCookies(_, _)
AddClientCookies(r, cookies) ==
    IF cookies = <<>> THEN r
    ELSE AddClientCookies(AddCookie(r, Head(cookies)), Tail(cookies))

\* NewRawRequest, lines 138-151: the authentication of the Client itself.
SetAuthentication(r, c) ==
    IF c.authType = "session"
    THEN IF ~c.session.isNil THEN AddClientCookies(r, c.session.cookies) ELSE r
    ELSE IF c.authType = "basic"
    THEN IF c.username # ""
         THEN [r EXCEPT !.BasicAuth = [set |-> TRUE, username |-> c.username, password |-> c.password]]
         ELSE r
    ELSE r

\* NewRawRequest, lines 119-161.
NewRawRequest(c, args) ==
    IF ~args.urlOk THEN RawResult(NilRawRequest, FALSE, RawError("url", 0))
    ELSE IF ~args.methodOk THEN RawResult(NilRawRequest, FALSE, RawError("request", 0))
    ELSE ApplyOptions(
             SetAuthentication(RawRequest("application/json", <<>>, NoBasicAuth, <<>>), c),
             args.options, 1)

\* ---- state ------------------------------------------------------------------
\* The Client as configured: c.Authentication.authType, username, password,
\* and c.session (nil, or the cookies of the session).
ClientConfig(authType, username, session) ==
    [authType |-> authType, username |-> username, password |-> Password, session |-> session]
ClientConfigs ==
    { ClientConfig("none", "", NilSession) }
        \cup { ClientConfig("basic", u, NilSession) : u \in { "", Username } }
        \cup { ClientConfig("session", "", s) : s \in { NilSession } \cup { Session(l) : l \in CookieLists } }

RawInput(urlOk, methodOk, options) == [urlOk |-> urlOk, methodOk |-> methodOk, options |-> options]
RawInputs ==
    { RawInput(u, m, o) : u \in BOOLEAN, m \in BOOLEAN, o \in OptionLists } \
        { RawInput(FALSE, FALSE, o) : o \in OptionLists }

VARIABLES
    rawClient,   \* the Client's authentication settings
    rawIn,       \* the arguments of the NewRawRequest call
    rawOut       \* what it returned

rawVars == <<rawClient, rawIn, rawOut>>

NotBuilt == RawResult(NilRawRequest, FALSE, RawError("pending", 0))

InitRaw ==
    /\ rawClient \in ClientConfigs
    /\ rawIn \in RawInputs
    /\ rawOut = NotBuilt
RawUnused ==
    /\ rawClient = ClientConfig("none", "", NilSession)
    /\ rawIn = RawInput(TRUE, TRUE, <<>>)
    /\ rawOut = NotBuilt

CallNewRawRequest ==
    /\ rawOut = NotBuilt
    /\ rawOut' = NewRawRequest(rawClient, rawIn)
    /\ UNCHANGED <<rawClient, rawIn>>

(***************************************************************************)
(*         PART 6: InsightsService.GetObjectSchemaList / Attributes        *)
(***************************************************************************)
\* ---- json.NewDecoder(res.Body).Decode(&v) -----------------------------------
InsightBytes == { "{", "}", "[", "]" }
InsightBodies == SeqsUpTo(InsightBytes, MaxBodyLen)

JsonObject == [typ |-> "object", items |-> <<>>]
JsonArray(items) == [typ |-> "array", items |-> items]
JsonNone == [typ |-> "none", items |-> <<>>]
Decoded(ok, v, tail) == [ok |-> ok, val |-> v, tail |-> tail]
DecodeFail == Decoded(FALSE, JsonNone, <<>>)

\* The first JSON value of the stream; what follows it is not looked at.
\* An array item is kept by its type.
RECURSIVE readValue(_)
readValue(s) ==
    IF s = <<>> THEN DecodeFail                                   \* io.EOF
    ELSE IF Head(s) = "{" THEN
        IF Tail(s) # <<>> /\ Head(Tail(s)) = "}"
        THEN Decoded(TRUE, JsonObject, Tail(Tail(s)))
        ELSE DecodeFail
    ELSE IF Head(s) = "[" THEN
        LET rest == Tail(s) IN
        IF rest = <<>> THEN DecodeFail
        ELSE IF Head(rest) = "]" THEN Decoded(TRUE, JsonArray(<<>>), Tail(rest))
        ELSE LET item == readValue(rest) IN
             IF item.ok /\ item.tail # <<>> /\ Head(item.tail) = "]"
             THEN Decoded(TRUE, JsonArray(<<item.val.typ>>), Tail(item.tail))
             ELSE DecodeFail
    ELSE DecodeFail

\* Unmarshal: a struct takes an object, a slice of structs an array of objects.
Fits(v, target) ==
    IF target = "struct" THEN v.typ = "object"
    ELSE v.typ = "array" /\ \A i \in 1 .. Len(v.items) : v.items[i] = "object"

\* Decode's error is nil exactly when the first value reads and fits.
Decode(stream, target) ==
    LET r == readValue(stream) IN r.ok /\ Fits(r.val, target)

\* ---- state ------------------------------------------------------------------
VARIABLES
    insight      \* the last endpoint call: what the server sent, what was returned

insightVars == <<insight>>

NoInsightCall ==
    [method |-> "none", answered |-> FALSE, StatusCode |-> 0, body |-> <<>>,
     value |-> FALSE, err |-> "nil"]

InitInsight == insight = NoInsightCall

\* Lines 17-32 and 40-55: NewRequest, i.client.client.Do(req), Decode.
\* i.client.client is the HTTP client itself (its Do returns the response
\* and an error): the status is looked at nowhere.
Endpoint(method, target) ==
    \E requestFails \in BOOLEAN, doFails \in BOOLEAN, c \in StatusCodes, data \in InsightBodies :
        /\ (requestFails \/ doFails) => (c = 200 /\ data = <<>>)
        /\ requestFails => ~doFails
        /\ insight' =
             IF requestFails THEN [NoInsightCall EXCEPT !.method = method, !.err = "request"]
             ELSE IF doFails THEN [NoInsightCall EXCEPT !.method = method, !.err = "http"]
             ELSE [method |-> method, answered |-> TRUE, StatusCode |-> c, body |-> data,
                   value |-> TRUE,
                   err |-> IF Decode(data, target) THEN "nil" ELSE "decode"]

GetObjectSchemaList == Endpoint("GetObjectSchemaList", "struct")
GetObjectSchemaAttributes == Endpoint("GetObjectSchemaAttributes", "slice")

(***************************************************************************)
(*                           Specifications                                *)
(***************************************************************************)
vars == <<doVars, cookieVars, canonVars, authVars, rawVars, insightVars>>

\* The Client, the cookie transport, the signer, the requests, the request
\* builder and the endpoints are separate objects: while one is exercised the
\* others stand still.
CookieQuiet == UNCHANGED <<cookieVars, canonVars, authVars, rawVars, insightVars>>
DoQuiet == UNCHANGED <<doVars, canonVars, authVars, rawVars, insightVars>>
OthersQuiet == UNCHANGED <<doVars, canonVars, rawVars, insightVars>>
OthersUnused == CanonUnused /\ AuthUnused /\ RawUnused /\ InitInsight

Init == InitDo /\ InitCookie /\ OthersUnused
\* The Client in use, next to a transport as constructed.
InitClient == InitDo /\ NewTransport(TRUE) /\ OthersUnused

\* Any number of callers inside Do at once.
NextDo ==
    \E t \in Callers :
        \/ ClientDo(t) /\ CookieQuiet
        \/ ReadBody(t) /\ CookieQuiet
        \/ PoolGet(t) /\ CookieQuiet
        \/ ParseBody(t) /\ CookieQuiet
        \/ CheckStatus(t) /\ CookieQuiet
        \/ DoDone(t) /\ CookieQuiet

SpecDo == InitClient /\ [][NextDo]_vars

\* One Do call at a time: a call starts when no other caller is inside Do or
\* still holds what Do returned.
DoAlone(t) == \A u \in Callers \ {t} : doPc[u] = "idle"

NextDoSeq ==
    \E t \in Callers :
        \/ DoAlone(t) /\ ClientDo(t) /\ CookieQuiet
        \/ DoAlone(t) /\ ReadBody(t) /\ CookieQuiet
        \/ DoAlone(t) /\ PoolGet(t) /\ CookieQuiet
        \/ DoAlone(t) /\ ParseBody(t) /\ CookieQuiet
        \/ DoAlone(t) /\ CheckStatus(t) /\ CookieQuiet
        \/ DoAlone(t) /\ DoDone(t) /\ CookieQuiet

SpecDoSeq == InitClient /\ [][NextDoSeq]_vars

\* Any number of callers inside RoundTrip at once.
NextCookie ==
    \/ \E t \in Callers :
        \/ RoundTrip(t) /\ DoQuiet
        \/ Login(t) /\ DoQuiet
        \/ StoreBegin(t) /\ DoQuiet
        \/ StoreEnd(t) /\ DoQuiet
        \/ Attach(t) /\ DoQuiet
        \/ Send(t) /\ DoQuiet
        \/ RoundTripDone(t) /\ DoQuiet
    \/ ResetCache /\ DoQuiet

SpecCookie == Init /\ [][NextCookie]_vars

\* One RoundTrip call at a time.
RoundTripAlone(t) == \A u \in Callers \ {t} : rt[u].pc = "idle"

NextCookieSeq ==
    \/ \E t \in Callers :
        \/ RoundTripAlone(t) /\ RoundTrip(t) /\ DoQuiet
        \/ RoundTripAlone(t) /\ Login(t) /\ DoQuiet
        \/ RoundTripAlone(t) /\ StoreBegin(t) /\ DoQuiet
        \/ RoundTripAlone(t) /\ StoreEnd(t) /\ DoQuiet
        \/ RoundTripAlone(t) /\ Attach(t) /\ DoQuiet
        \/ RoundTripAlone(t) /\ Send(t) /\ DoQuiet
        \/ RoundTripAlone(t) /\ RoundTripDone(t) /\ DoQuiet
    \/ ResetCache /\ DoQuiet

SpecCookieSeq == Init /\ [][NextCookieSeq]_vars

\* canonicalizeRequest on every method and URL.
InitSigner ==
    InitDo /\ NewTransport(TRUE) /\ InitCanon /\ AuthUnused /\ RawUnused /\ InitInsight
NextCanon ==
    Canonicalize /\ UNCHANGED <<doVars, cookieVars, authVars, rawVars, insightVars>>
SpecCanon == InitSigner /\ [][NextCanon]_vars

\* One caller with one request: it clones the request and changes headers
\* itself (no transport), or sends it through one of the three transports.
InitTransports ==
    InitDo /\ NewTransport(TRUE) /\ CanonUnused /\ InitAuth /\ RawUnused /\ InitInsight
NextAuth ==
    \/ CallCloneRequest /\ UNCHANGED cookieVars /\ OthersQuiet
    \/ SetHeader /\ UNCHANGED cookieVars /\ OthersQuiet
    \/ AddHeader /\ UNCHANGED cookieVars /\ OthersQuiet
    \/ DelHeader /\ UNCHANGED cookieVars /\ OthersQuiet
    \/ WriteHeader /\ UNCHANGED cookieVars /\ OthersQuiet
    \/ DropClone /\ UNCHANGED cookieVars /\ OthersQuiet
    \/ BasicRoundTrip /\ UNCHANGED cookieVars /\ OthersQuiet
    \/ JWTRoundTrip /\ UNCHANGED cookieVars /\ OthersQuiet
    \/ Tick /\ UNCHANGED cookieVars /\ OthersQuiet
    \/ CookieRoundTripAlone /\ OthersQuiet
    \/ transport = "cookie" /\ ResetCache /\ UNCHANGED authVars /\ OthersQuiet
SpecAuth == InitTransports /\ [][NextAuth]_vars

\* The senders: a Client whose HTTP client has no transport of this package
\* (Do, one call at a time), or one of the three transports.
InitSenders ==
    /\ InitDo /\ NewTransport(TRUE) /\ CanonUnused /\ RawUnused /\ InitInsight
    /\ InitAuth
    /\ transport = "none" => AuthUnused
NextSenders ==
    \/ \E t \in Callers :
        \/ transport = "none" /\ DoAlone(t) /\ ClientDo(t) /\ CookieQuiet
        \/ transport = "none" /\ DoAlone(t) /\ ReadBody(t) /\ CookieQuiet
        \/ transport = "none" /\ DoAlone(t) /\ PoolGet(t) /\ CookieQuiet
        \/ transport = "none" /\ DoAlone(t) /\ ParseBody(t) /\ CookieQuiet
        \/ transport = "none" /\ DoAlone(t) /\ CheckStatus(t) /\ CookieQuiet
        \/ transport = "none" /\ DoAlone(t) /\ DoDone(t) /\ CookieQuiet
    \/ BasicRoundTrip /\ UNCHANGED cookieVars /\ OthersQuiet
    \/ JWTRoundTrip /\ UNCHANGED cookieVars /\ OthersQuiet
    \/ Tick /\ UNCHANGED cookieVars /\ OthersQuiet
    \/ CookieRoundTripAlone /\ OthersQuiet
    \/ transport = "cookie" /\ ResetCache /\ UNCHANGED authVars /\ OthersQuiet
SpecSenders == InitSenders /\ [][NextSenders]_vars

\* NewRawRequest on every client configuration and argument list.
InitBuilder ==
    InitDo /\ NewTransport(TRUE) /\ CanonUnused /\ AuthUnused /\ InitRaw /\ InitInsight
NextRaw ==
    CallNewRawRequest /\ UNCHANGED <<doVars, cookieVars, canonVars, authVars, insightVars>>
SpecRaw == InitBuilder /\ [][NextRaw]_vars

\* The two endpoints, called in any order.
InitEndpoints == InitDo /\ NewTransport(TRUE) /\ OthersUnused
NextInsights ==
    \/ GetObjectSchemaList /\ UNCHANGED <<doVars, cookieVars, canonVars, authVars, rawVars>>
    \/ GetObjectSchemaAttributes /\ UNCHANGED <<doVars, cookieVars, canonVars, authVars, rawVars>>
SpecInsights == InitEndpoints /\ [][NextInsights]_vars

(***************************************************************************)
(*                  Claims on CookieAuthTransport                          *)
(***************************************************************************)
Finished(t) == rt[t].pc = "done"
\* The login exchange of t's call failed (or could not be built).
LoginFailed(t) == rt[t].authErr # "nil"
\* The login exchange of t's call was answered at the HTTP level.
LoginAnswered(t) ==
    rt[t].attempts >= 1 /\ rt[t].authErr = "nil" /\ rt[t].pc \notin {"idle", "login"}
\* The cookies a request carries beyond those of the caller's request.
AttachedTo(r, call) == Drop(r.Cookie, Len(call.req.Cookie))
CookieSet(list) == { list[i] : i \in 1 .. Len(list) }
NonEmptyCookies(list) == { c \in CookieSet(list) : c.Value # "" }

\* The call has added the cached cookies to its clone.
HasAttached(t) == rt[t].pc = "send" \/ rt[t].sent # <<>>

\* C1: callers that are inside RoundTrip at the same time (the caller resets
\* the cache only between calls, so they share one lifetime of the cache)
\* cause at most one login exchange that is answered and stored, and those of
\* them that have attached cookies have attached the same ones.
C1_OneLoginUnderConcurrentFirstUse ==
    /\ logins - loginFailures <= 1
    /\ \A t, u \in Callers :
          (HasAttached(t) /\ HasAttached(u))
              => AttachedTo(rt[t].req2, rt[t]) = AttachedTo(rt[u].req2, rt[u])

\* C6: a RoundTrip whose login exchange fails returns an error and no
\* response, hands nothing to the underlying transport and leaves the cache
\* unset.
C6_FailedLoginSendsNothing ==
    \A t \in Callers :
        LoginFailed(t) =>
            /\ Finished(t)
            /\ rt[t].err = "auth"
            /\ ~rt[t].resp.present
            /\ rt[t].sent = <<>>
            /\ SessionObject.isNil

C6_Witness ==
    \E t \in Callers : rt[t].authErr = "do" /\ rt[t].attempts = 1 /\ Finished(t)

\* C7 as stated: once a login exchange has failed, no further login exchange
\* is sent until the caller resets the cache.
C7_NoLoginAfterFailure == loginFailures >= 1 => logins <= 1

\* C7 amended: a RoundTrip call sends at most one login exchange (a failure is
\* not retried inside the call); a later call that finds the cache unset after
\* a failure goes to the login exchange again and sends it, with no reset by
\* the caller.
C7_LoginAgainOnNextCall ==
    [][\A t \in Callers :
          /\ rt'[t].attempts <= 1
          /\ (rt[t].pc = "idle" /\ rt'[t].pc # "idle" /\ loginFailures >= 1
                  /\ SessionObject.isNil)
                 => rt'[t].pc = "login"
          /\ (rt[t].pc = "login" /\ rt'[t].pc # "login" /\ loginFailures >= 1)
                 => (logins' = logins + 1 /\ rt'[t].attempts = 1)]_vars

C7_Witness ==
    /\ loginFailures >= 1
    /\ logins >= 2
    /\ \E t \in Callers : rt[t].attempts = 1 /\ rt[t].pc \in {"store", "done"}

NoUsableCookies(list) == NonEmptyCookies(list) = {}

\* C8: a login answered without a usable cookie (none, or only empty values)
\* makes RoundTrip fail with the authentication error and send nothing.

C8_NoCookiesIsAuthError ==
    \A t \in Callers :
        (LoginAnswered(t) /\ NoUsableCookies(rt[t].authResp.cookies))
            => /\ rt[t].sent = <<>>
               /\ Finished(t) => rt[t].err = "auth"

\* The step is the caller's reset of the cache: no call moves.
IsReset == SessionObject' = NilSession /\ rt' = rt

\* C9: while the cache is populated, no step sends a login exchange, the cache
\* changes only by the caller's reset, and a call that attaches cookies takes
\* them from the cached set, whatever the underlying transport answered.

C9_CachedSessionReused ==
    [][~SessionObject.isNil =>
          /\ logins' <= logins
          /\ SessionObject' = SessionObject \/ IsReset
          /\ \A t \in Callers :
                (rt[t].pc = "clone" /\ rt'[t].pc = "send")
                    => CookieSet(AttachedTo(rt'[t].req2, rt[t]))
                           = NonEmptyCookies(SessionObject.cookies)]_vars

C9_Witness ==
    /\ ~SessionObject.isNil
    /\ logins = 1
    /\ \E t \in Callers :
          /\ rt[t].attempts = 0
          /\ rt[t].sent # <<>>
          /\ rt[t].resp.StatusCode = 401
          /\ AttachedTo(rt[t].sent[1], rt[t]) # <<>>
          /\ CookieSet(AttachedTo(rt[t].sent[1], rt[t])) = NonEmptyCookies(SessionObject.cookies)

\* The place in the list of its k-th cookie with a non-empty value.
KthNonEmpty(list, k) ==
    CHOOSE i \in 1 .. Len(list) :
        /\ list[i].Value # ""
        /\ Cardinality({ j \in 1 .. i : list[j].Value # "" }) = k

CarriesNonEmptyInOrder(added, cached) ==
    /\ Len(added) = Cardinality({ i \in 1 .. Len(cached) : cached[i].Value # "" })
    /\ \A k \in 1 .. Len(added) : added[k] = cached[KthNonEmpty(cached, k)]

\* C10: a request handed to the underlying transport carries, after the
\* caller's own cookies, exactly the cached cookies with a non-empty value, in
\* cache order: its k-th added cookie is the k-th cached cookie whose value is
\* not empty.
C10_OnlyNonEmptyCookiesSent ==
    \A t \in Callers :
        \A n \in 1 .. Len(rt[t].sent) :
            /\ SubSeq(rt[t].sent[n].Cookie, 1, Len(rt[t].req.Cookie)) = rt[t].req.Cookie
            /\ CarriesNonEmptyInOrder(AttachedTo(rt[t].sent[n], rt[t]), SessionObject.cookies)

C10_Witness ==
    \E t \in Callers :
        /\ rt[t].sent # <<>>
        /\ Len(SessionObject.cookies) = 2
        /\ SessionObject.cookies[1].Value = ""
        /\ SessionObject.cookies[2].Value # ""
        /\ AttachedTo(rt[t].sent[1], rt[t]) = <<SessionObject.cookies[2]>>

(***************************************************************************)
(*              Claims on the JWT transport and on cloneRequest            *)
(***************************************************************************)
AuthorizationOf(received) == received.Header["Authorization"]

\* C11: when signing fails, the JWT RoundTrip returns an error and no response
\* and hands nothing to the underlying transport; every request it does hand
\* over carries exactly one Authorization value, "JWT " followed by the token
\* signed in that call.
C11_SigningFailureSendsNothing ==
    trip.kind = "jwt" =>
        /\ trip.err = "sign" => (trip.sent = <<>> /\ ~trip.resp.present)
        /\ \A n \in 1 .. Len(trip.sent) :
              AuthorizationOf(trip.sent[n])
                  = [present |-> TRUE, values |-> << JWTValue(SignedString(trip.token, Secret)) >>]

C11_Witness == trip.kind = "jwt" /\ trip.err = "sign" /\ trip.sent = <<>>

\* C12: the exp claim of every token the JWT RoundTrip builds is its iat claim
\* plus 59 seconds, however the clock moves during the call.
C12_ExpIsIatPlus59 ==
    (trip.kind = "jwt" /\ trip.minted) => trip.token.exp = trip.token.iat + TokenLifetime

SourceView == HeaderView(heap, req)
CloneView == IF req2 = NoHttpRequest THEN HeaderView(heap, req) ELSE HeaderView(heap, req2)
ArraysOf(h, r) == { h.maps[r.Header][k].arr : k \in HeaderKeys } \ {0}

\* C13: the clone has a header map of its own and value arrays of its own; a
\* header change made on the clone leaves the headers of the source as they
\* were, and a change made on the source leaves those of the clone; no step of
\* the Basic, Cookie or JWT RoundTrip changes the headers of the caller's
\* request.
C13_CloneIsIndependent ==
    [][/\ req2' # NoHttpRequest =>
             /\ req2'.Header # req'.Header
             /\ ArraysOf(heap', req2') \cap ArraysOf(heap', req') = {}
       /\ mutated' = "req2" => SourceView' = SourceView
       /\ (mutated' = "req" /\ req2 # NoHttpRequest) => CloneView' = CloneView
       /\ transport # "none" => SourceView' = SourceView]_vars

C13_Witness ==
    /\ req2 # NoHttpRequest
    /\ mutated = "req2"
    /\ \E k \in HeaderKeys :
          /\ SourceView[k].values # <<>>
          /\ Len(CloneView[k].values) = Len(SourceView[k].values)
          /\ CloneView[k].values # SourceView[k].values

\* C14: a Do call has called the HTTP client exactly once from its first step
\* on and returns the client's error when there was one; a RoundTrip of the
\* Basic, Cookie or JWT transport hands at most one request to the underlying
\* transport, none when login or signing failed, and returns the underlying
\* transport's error when there was one.
C14_NothingRetried ==
    /\ \A t \in Callers :
          /\ clientCalls[t] = (IF doPc[t] = "idle" THEN 0 ELSE 1)
          /\ (Returned(t) /\ fault[t] = "send") => doRet[t].err.kind = "http"
    /\ Len(trip.sent) <= 1
    /\ trip.err \in { "sign", "auth" } => trip.sent = <<>>
    /\ trip.failed => (trip.err = "transport" /\ ~trip.resp.present /\ Len(trip.sent) = 1)

C14_Witness ==
    \E t \in Callers :
        Returned(t) /\ fault[t] = "send" /\ clientCalls[t] = 1 /\ doRet[t].err.kind = "http"

(***************************************************************************)
(*                     Claims on Client.NewRawRequest                      *)
(***************************************************************************)
\* The place of the first option that fails, 0 when none does.
FirstFailure(options) ==
    IF \E i \in 1 .. Len(options) : options[i].fails
    THEN CHOOSE i \in 1 .. Len(options) :
             options[i].fails /\ \A j \in 1 .. i - 1 : ~options[j].fails
    ELSE 0
\* The tags the first n options leave on a request, in their order.
RECURSIVE TagsWritten(_, _)
TagsWritten(options, n) ==
    IF n = 0 THEN <<>>
    ELSE TagsWritten(options, n - 1) \o (IF options[n].writes THEN <<options[n].tag>> ELSE <<>>)

\* C15: once the request is built, NewRawRequest returns it with the options
\* up to and including the first failing one applied in the order given and
\* with that option's error; with no failing option, with all of them applied
\* and a nil error.
C15_OptionsInOrderUntilError ==
    (rawOut # NotBuilt /\ rawIn.urlOk /\ rawIn.methodOk) =>
        LET f == FirstFailure(rawIn.options)
            last == IF f = 0 THEN Len(rawIn.options) ELSE f
        IN  /\ rawOut.built
            /\ rawOut.req.applied = TagsWritten(rawIn.options, last)
            /\ rawOut.err = (IF f = 0 THEN RawError("nil", 0) ELSE RawError("option", f))

C15_Witness ==
    /\ rawOut.built
    /\ Len(rawIn.options) = 2
    /\ rawIn.options[1].fails /\ rawIn.options[1].writes
    /\ rawIn.options[2].writes
    /\ rawOut.err = RawError("option", 1)
    /\ rawOut.req.applied = << rawIn.options[1].tag >>

\* C18: a request built while the Client's authType is session carries no
\* cookie with an empty value.
C18_NoEmptySessionCookie ==
    (rawOut.built /\ rawClient.authType = "session") =>
        \A i \in 1 .. Len(rawOut.req.Cookie) : rawOut.req.Cookie[i].Value # ""

(***************************************************************************)
(*                     Claims on canonicalizeRequest                       *)
(***************************************************************************)
Occurrences(query, p) == Cardinality({ i \in 1 .. Len(query) : query[i] = p })
\* The same parameters, in whatever order.
SameParameters(q1, q2) ==
    Len(q1) = Len(q2) /\ \A p \in Params : Occurrences(q1, p) = Occurrences(q2, p)

\* C16: the canonical string of a method and URL is the canonical string of
\* the same method and every URL with the same path and the same query
\* parameters in another order.
C16_OrderIndependent ==
    canonOut # NotCalled =>
        \A q \in Queries :
            SameParameters(q, canonIn.jiraURL.RawQuery)
                => canonicalizeRequest(canonIn.httpMethod, URL(canonIn.jiraURL.Path, q)) = canonOut

RECURSIVE WithoutJwt(_)
WithoutJwt(query) ==
    IF query = <<>> THEN <<>>
    ELSE (IF Head(query).key = JwtKey THEN <<>> ELSE <<Head(query)>>) \o WithoutJwt(Tail(query))

\* C17: the canonical string of a URL is that of the URL without its jwt
\* parameters; when jwt is the only parameter it is METHOD&/path& with nothing
\* after the second ampersand.
C17_JwtParameterExcluded ==
    canonOut # NotCalled =>
        LET m == canonIn.httpMethod
            u == canonIn.jiraURL
        IN  /\ canonOut = canonicalizeRequest(m, URL(u.Path, WithoutJwt(u.RawQuery)))
            /\ QueryKeys(u.RawQuery) = { JwtKey } =>
                   canonOut = ToUpper(m) \o <<"&", "/">>
                                  \o Replace(Trim(u.Path, "/"), "&", <<"%", "2", "6">>) \o <<"&">>

C17_Witness ==
    /\ canonOut # NotCalled
    /\ JwtKey \in QueryKeys(canonIn.jiraURL.RawQuery)
    /\ QueryKeys(canonIn.jiraURL.RawQuery) # { JwtKey }

(***************************************************************************)
(*              Claims on the parser pool and on the endpoints             *)
(***************************************************************************)
\* C19: a Do call that returns before line 222 holds no parser and leaves the
\* pool alone; the step that takes a parser takes it out of the pool; a call
\* that returns after line 222 puts the parser it holds, which is not in the
\* pool, back into the pool and holds it no longer; so when no call is between
\* Get and return no parser is missing from the pool.
C19_ParserReturnedOnEveryExit ==
    [][/\ \A t \in Callers :
             /\ (doPc[t] \in { "idle", "read" } /\ doPc'[t] = "done")
                    => (parser'[t] = NoParser /\ parserPool' = parserPool)
             /\ (doPc[t] = "pool" /\ doPc'[t] # "pool")
                    => (parser'[t] # NoParser /\ parser'[t] \notin parserPool')
             /\ (doPc[t] \in { "parse", "status" } /\ doPc'[t] = "done")
                    => /\ parser[t] # NoParser
                       /\ parser[t] \notin parserPool
                       /\ parserPool' = parserPool \cup { parser[t] }
                       /\ parser'[t] = NoParser
       /\ (\A t \in Callers : doPc'[t] \in { "idle", "read", "pool", "done" })
              => /\ \A t \in Callers : parser'[t] = NoParser
                 /\ \A p \in Parsers : parserMem'[p] # NeverUsed => p \in parserPool']_vars

C19_Witness ==
    \E t \in Callers :
        /\ Returned(t)
        /\ doRet[t].err.kind = "parse"
        /\ parserPool # {}
        /\ \A u \in Callers : parser[u] = NoParser

\* C20: GetObjectSchemaList and GetObjectSchemaAttributes return a non-nil
\* error for every response whose status is outside [200,299].
C20_NonSuccessIsError ==
    (insight.answered /\ OutsideSuccessRange(insight.StatusCode)) => insight.err # "nil"

====
